---- MODULE Spec2Model ----
(***************************************************************************)
(* A model of econml/dml.py: the cross-fitting orthogonal learner          *)
(* (_RLearner.fit / const_marginal_effect), the nuisance and final model   *)
(* wrappers built by _DMLCateEstimatorBase.__init__, and the construction  *)
(* of the Kernel configuration.                                            *)
(*                                                                         *)
(* Arrays are abstracted to their shapes and to the provenance of their    *)
(* rows: a residual row holds the sequence of folds that wrote it, and for *)
(* each nuisance model the rows it was fit on and the rows it predicted    *)
(* in the running fit call are kept as history.  Every X has one column,   *)
(* as the default X of fit has.  A caller-supplied delegate (nuisance      *)
(* model, final model) may raise in fit or predict; a delegate whose fit   *)
(* raised is left as it was.                                               *)
(***************************************************************************)
EXTENDS Integers, Sequences, FiniteSets, TLC

\* ------------------------------------------------------------------ bounds
MaxN == 4        \* rows of Y in a fit call
MaxK == 3        \* n_splits of the estimator
MaxD == 2        \* trailing dimension of a 2-D Y or T
MaxQ == 2        \* rows of a query X
MaxCalls == 2    \* fit calls made on the estimator

\* columns of X: np.ones((shape(Y)[0], 1))
XCols == 1

VARIABLES
    nSplits,      \* self._n_splits
    modelsT,      \* self._models_t: per fold, whether the wrapped model is fitted
    modelsY,      \* self._models_y: likewise
    featurizer,   \* the one featurizer captured by every wrapper
    modelFinal,   \* the final model captured by FinalWrapper
    wrapper,      \* FinalWrapper's own attributes _d_t, _d_y
    pc,           \* position of the (single) thread: "idle" or a line of fit
    lastResult,   \* how the last public call ended
    call,         \* number of fit calls started so far
    everFit,      \* history: some fit call has returned normally
    \* the frame of the running (or just ended) fit call, and its history
    args,         \* the arrays given, as shapes
    idx,          \* the fold index of the loop at line 64
    tRes,         \* t_res: per row, the folds that wrote it (<<>> = zero)
    yRes,         \* y_res: likewise
    histT,        \* per fold: rows models_t[f] was fit on and rows it predicted
    histY,        \* per fold: likewise for models_y[f]
    finalFits,    \* calls of self._model_final.fit
    finalArgs,    \* what self._model_final.fit was given
    wlog          \* objects written, and by which fold

state == <<nSplits, modelsT, modelsY, featurizer, modelFinal, wrapper>>

frame == <<args, idx, tRes, yRes, histT, histY, finalFits, finalArgs, wlog>>

vars == <<nSplits, modelsT, modelsY, featurizer, modelFinal, wrapper, pc, lastResult,
          call, everFit, args, idx, tRes, yRes, histT, histY, finalFits, finalArgs, wlog>>

\* ------------------------------------------------------------ pure helpers
Min(a, b) == IF a < b THEN a ELSE b

\* trailing shapes: () for a vector, (d,) for an n x d array
Dims == {<<>>} \cup {<<d>> : d \in 1..MaxD}

\* product of a trailing shape
Prod(s) == IF s = <<>> THEN 1 ELSE s[1]

Rows(n) == 0..(n - 1)

\* KFold(k) refuses k < 2, and its split refuses k > n
KFoldError(n, k) == k < 2 \/ k > n

\* sklearn KFold without shuffling: the first n % k folds hold n // k + 1
\* consecutive rows, the others n // k
TestIdxsShort(n, k, f) ==
    {i \in Rows(n) : f * (n \div k) <= i /\ i < (f + 1) * (n \div k)}

TestIdxs(n, k, f) ==
    LET start == f * (n \div k) + Min(f, n % k)
        size  == (n \div k) + (IF f < n % k THEN 1 ELSE 0)
    IN  {i \in Rows(n) : start <= i /\ i < start + size}

TrainIdxsAll(n, k, f) == Rows(n)

TrainIdxs(n, k, f) == Rows(n) \ TestIdxs(n, k, f)

\* PolynomialFeatures(degree=1, include_bias=True): a bias column and X
FeatWidth(dx) == dx + 1

\* line 60: the four row counts, after the defaults of lines 56-59
RowsAgreeYT(nY, nT, nX, nW) == nY = nT

RowsAgree(nY, nT, nX, nW) == nY = nT /\ nT = nX /\ nX = nW

\* lines 64, 72-75: where the loop goes after a fold's last statement
AfterFoldBreak(i, k) == "final_fit"

AfterFold(i, k) == IF i + 1 < k THEN "t_fit" ELSE "final_fit"

\* lines 72-75: no handler surrounds the fold body, so a raising delegate
\* ends the fit call
AfterFailureSwallow(p) ==
    CASE p = "t_fit" -> "t_predict"
      [] p = "t_predict" -> "y_fit"
      [] p = "y_fit" -> "y_predict"
      [] OTHER -> "final_fit"

AfterFailure(p) == "idle"

\* FinalWrapper.predict on a query of m rows, given the wrapper's
\* attributes w and the final model mf: an error name, or the shape of the
\* array returned
PredictOutcomeNoFitCheck(w, mf, m) ==
    IF ~w.set THEN [status |-> "AttributeError", shape |-> <<>>]
    ELSE LET dte  == Prod(w.dT)
             tail == Prod(w.dT) * Prod(w.dY)
             size == dte * m * Prod(mf.dY)
             eff  == <<size \div tail>> \o w.dT \o w.dY
         IN  [status |-> "ok",
              shape |-> IF w.dT # <<>> /\ w.dY # <<>>
                        THEN <<eff[1], eff[3], eff[2]>> ELSE eff]

PredictOutcome(w, mf, m) ==
    IF ~w.set THEN [status |-> "AttributeError", shape |-> <<>>]
    ELSE LET dte    == Prod(w.dT)                       \* rows of eye
             kronC  == dte * dte * FeatWidth(XCols)      \* columns of kron(flat_eye, F)
             xtRows == dte * m
             xtCols == (m * kronC) \div xtRows
             size   == xtRows * Prod(mf.dY)              \* entries predicted
             tail   == Prod(w.dT) * Prod(w.dY)
             eff    == <<size \div tail>> \o w.dT \o w.dY
         IN  IF ~mf.fitted THEN [status |-> "NotFittedError", shape |-> <<>>]
             ELSE IF xtCols # mf.width THEN [status |-> "ValueError", shape |-> <<>>]
             ELSE IF size % tail # 0 THEN [status |-> "ValueError", shape |-> <<>>]
             ELSE [status |-> "ok",
                   shape |-> IF w.dT # <<>> /\ w.dY # <<>>
                             THEN <<eff[1], eff[3], eff[2]>> ELSE eff]

\* FinalWrapper.coef_: model_final.coef_ reshaped to d_y + d_t + (-1,)
CoefOutcome(w, mf) ==
    IF ~mf.fitted \/ ~w.set THEN [status |-> "AttributeError", shape |-> <<>>]
    ELSE LET size == Prod(mf.dY) * mf.width
             head == Prod(w.dY) * Prod(w.dT)
         IN  IF size % head # 0 THEN [status |-> "ValueError", shape |-> <<>>]
             ELSE [status |-> "ok", shape |-> w.dY \o w.dT \o <<size \div head>>]

\* the names bound in the module's globals by lines 12-20
ModuleGlobals ==
    {"np", "copy", "shape", "reshape", "ndim", "hstack", "cross_product", "transpose",
     "KFold", "LinearRegression", "LassoCV", "PolynomialFeatures", "FunctionTransformer",
     "clone", "Pipeline", "LinearCateEstimator"}

\* KernelDMLCateEstimator.__init__ declares no self: the instance is bound
\* to model_y, and a model_y keyword is a second value for it; then
\* RandomFeatures() looks up defaultdict
KernelConstruct(byKeyword) ==
    IF byKeyword THEN "TypeError"
    ELSE IF "defaultdict" \notin ModuleGlobals THEN "NameError"
    ELSE "constructed"

\* ------------------------------------------------------------------- state
Folds == 0..(nSplits - 1)

NoArgs == [nY |-> 0, nT |-> 0, nX |-> 0, nW |-> 0, dT |-> <<>>, dY |-> <<>>]

NoHist == [fit |-> FALSE, train |-> {}, predicted |-> {}]

NoFinalArgs == [given |-> FALSE, xRows |-> {}, tRes |-> <<>>, yRes |-> <<>>, idx |-> 0]

Result(op, status, shape, q, fold, target) ==
    [op |-> op, status |-> status, shape |-> shape, q |-> q, fold |-> fold,
     target |-> target]

\* _RLearner.__init__ with the wrappers of _DMLCateEstimatorBase.__init__:
\* n_splits fresh clones of each nuisance wrapper, one clone of the final
\* wrapper, and the single featurizer and final model they close over
Init ==
    /\ nSplits \in 1..MaxK
    /\ modelsT = [f \in Folds |-> [fitted |-> FALSE]]
    /\ modelsY = [f \in Folds |-> [fitted |-> FALSE]]
    /\ featurizer = [fitted |-> FALSE, src |-> "none", rows |-> {}]
    /\ modelFinal = [fitted |-> FALSE, width |-> 0, dY |-> <<>>]
    /\ wrapper = [set |-> FALSE, dT |-> <<>>, dY |-> <<>>]
    /\ pc = "idle"
    /\ lastResult = Result("none", "none", <<>>, 0, 0, "none")
    /\ call = 0
    /\ everFit = FALSE
    /\ args = NoArgs
    /\ idx = 0
    /\ tRes = <<>>
    /\ yRes = <<>>
    /\ histT = [f \in Folds |-> NoHist]
    /\ histY = [f \in Folds |-> NoHist]
    /\ finalFits = 0
    /\ finalArgs = NoFinalArgs
    /\ wlog = {}

\* the frame and the history of the last fit call are gone once another
\* public call is made
ForgetFrame ==
    /\ args' = NoArgs
    /\ idx' = 0
    /\ tRes' = <<>>
    /\ yRes' = <<>>
    /\ histT' = [f \in Folds |-> NoHist]
    /\ histY' = [f \in Folds |-> NoHist]
    /\ finalFits' = 0
    /\ finalArgs' = NoFinalArgs
    /\ wlog' = {}

\* featurizer.fit_transform(X[rows]): the featurizer is fit again, on the
\* rows it is given
FitTransform(src, rows) == [fitted |-> TRUE, src |-> src, rows |-> rows]

Wrote(obj, keys, who, fold) ==
    {[obj |-> obj, key |-> key, who |-> who, fold |-> fold] : key \in keys}

\* ----------------------------------------------------------------- actions

\* _RLearner.fit, lines 55-64: the defaults for X and W (an X or W that is
\* not given has the rows of Y), the assertion on the row counts, the
\* zeroed residual arrays, and the first step of the KFold generator
FitCall ==
    /\ pc = "idle"
    /\ call < MaxCalls
    /\ call' = call + 1
    /\ \E nY \in 1..MaxN :
       \E nT \in {nY, nY - 1}, nX \in {nY, nY - 1} \ {0}, nW \in {nY, nY - 1} \ {0} :
         IF ~RowsAgree(nY, nT, nX, nW)
         THEN /\ args' = [NoArgs EXCEPT !.nY = nY, !.nT = nT, !.nX = nX, !.nW = nW]
              /\ lastResult' = Result("fit", "AssertionError", <<>>, 0, 0, "none")
              /\ tRes' = <<>>
              /\ yRes' = <<>>
              /\ pc' = "idle"
         ELSE \E dT \in Dims, dY \in Dims :
              /\ args' = [nY |-> nY, nT |-> nT, nX |-> nX, nW |-> nW,
                          dT |-> dT, dY |-> dY]
              /\ tRes' = [i \in Rows(nY) |-> <<>>]
              /\ yRes' = [i \in Rows(nY) |-> <<>>]
              /\ IF KFoldError(nX, nSplits)
                 THEN /\ lastResult' = Result("fit", "ValueError", <<>>, 0, 0, "none")
                      /\ pc' = "idle"
                 ELSE /\ lastResult' = Result("fit", "running", <<>>, 0, 0, "none")
                      /\ pc' = "t_fit"
    /\ idx' = 0
    /\ histT' = [f \in Folds |-> NoHist]
    /\ histY' = [f \in Folds |-> NoHist]
    /\ finalFits' = 0
    /\ finalArgs' = NoFinalArgs
    /\ wlog' = {}
    /\ UNCHANGED <<state, everFit>>

\* a delegate raised at position p of fold idx: the exception leaves fit
Raised(p, target) ==
    /\ pc' = AfterFailure(p)
    /\ lastResult' = Result("fit", "DelegateError", <<>>, 0, idx, target)

\* line 72: self._models_t[idx].fit(X_train, W_train, T_train); _combine
\* fits the featurizer on X_train before the wrapped model is fit
TFit ==
    /\ pc = "t_fit"
    /\ LET train == TrainIdxs(args.nX, nSplits, idx)
       IN  /\ featurizer' = FitTransform("fit", train)
           /\ \E raises \in BOOLEAN :
                IF raises
                THEN /\ Raised("t_fit", "model_t")
                     /\ wlog' = wlog \cup Wrote("featurizer", {0}, "fold", idx)
                     /\ UNCHANGED <<modelsT, histT>>
                ELSE /\ modelsT' = [modelsT EXCEPT ![idx] = [fitted |-> TRUE]]
                     /\ histT' = [histT EXCEPT ![idx] =
                                    [fit |-> TRUE, train |-> train, predicted |-> {}]]
                     /\ wlog' = wlog \cup Wrote("featurizer", {0}, "fold", idx)
                                     \cup Wrote("model_t", {idx}, "fold", idx)
                     /\ pc' = "t_predict"
                     /\ UNCHANGED lastResult
    /\ UNCHANGED <<nSplits, modelsY, modelFinal, wrapper, call, everFit, args, idx,
                   tRes, yRes, histY, finalFits, finalArgs>>

\* line 73: t_res[test_idxs] = T_test - self._models_t[idx].predict(X_test, W_test)
TPredict ==
    /\ pc = "t_predict"
    /\ LET test == TestIdxs(args.nX, nSplits, idx)
       IN  /\ featurizer' = FitTransform("fit", test)
           /\ \E raises \in BOOLEAN :
                IF raises
                THEN /\ Raised("t_predict", "model_t")
                     /\ wlog' = wlog \cup Wrote("featurizer", {0}, "fold", idx)
                     /\ UNCHANGED <<histT, tRes>>
                ELSE /\ histT' = [histT EXCEPT ![idx].predicted = @ \cup test]
                     /\ tRes' = [i \in DOMAIN tRes |->
                                   IF i \in test THEN Append(tRes[i], idx) ELSE tRes[i]]
                     /\ wlog' = wlog \cup Wrote("featurizer", {0}, "fold", idx)
                                     \cup Wrote("t_res", test, "fold", idx)
                     /\ pc' = "y_fit"
                     /\ UNCHANGED lastResult
    /\ UNCHANGED <<nSplits, modelsT, modelsY, modelFinal, wrapper, call, everFit, args,
                   idx, yRes, histY, finalFits, finalArgs>>

\* line 74: self._models_y[idx].fit(X_train, W_train, Y_train)
YFit ==
    /\ pc = "y_fit"
    /\ LET train == TrainIdxs(args.nX, nSplits, idx)
       IN  /\ featurizer' = FitTransform("fit", train)
           /\ \E raises \in BOOLEAN :
                IF raises
                THEN /\ Raised("y_fit", "model_y")
                     /\ wlog' = wlog \cup Wrote("featurizer", {0}, "fold", idx)
                     /\ UNCHANGED <<modelsY, histY>>
                ELSE /\ modelsY' = [modelsY EXCEPT ![idx] = [fitted |-> TRUE]]
                     /\ histY' = [histY EXCEPT ![idx] =
                                    [fit |-> TRUE, train |-> train, predicted |-> {}]]
                     /\ wlog' = wlog \cup Wrote("featurizer", {0}, "fold", idx)
                                     \cup Wrote("model_y", {idx}, "fold", idx)
                     /\ pc' = "y_predict"
                     /\ UNCHANGED lastResult
    /\ UNCHANGED <<nSplits, modelsT, modelFinal, wrapper, call, everFit, args, idx,
                   tRes, yRes, histT, finalFits, finalArgs>>

\* line 75: y_res[test_idxs] = Y_test - self._models_y[idx].predict(X_test, W_test),
\* and the loop's next iteration or its end
YPredict ==
    /\ pc = "y_predict"
    /\ LET test == TestIdxs(args.nX, nSplits, idx)
       IN  /\ featurizer' = FitTransform("fit", test)
           /\ \E raises \in BOOLEAN :
                IF raises
                THEN /\ Raised("y_predict", "model_y")
                     /\ wlog' = wlog \cup Wrote("featurizer", {0}, "fold", idx)
                     /\ UNCHANGED <<histY, yRes, idx>>
                ELSE /\ histY' = [histY EXCEPT ![idx].predicted = @ \cup test]
                     /\ yRes' = [i \in DOMAIN yRes |->
                                   IF i \in test THEN Append(yRes[i], idx) ELSE yRes[i]]
                     /\ wlog' = wlog \cup Wrote("featurizer", {0}, "fold", idx)
                                     \cup Wrote("y_res", test, "fold", idx)
                     /\ pc' = AfterFold(idx, nSplits)
                     /\ idx' = IF AfterFold(idx, nSplits) = "t_fit" THEN idx + 1 ELSE idx
                     /\ UNCHANGED lastResult
    /\ UNCHANGED <<nSplits, modelsT, modelsY, modelFinal, wrapper, call, everFit, args,
                   tRes, histT, finalFits, finalArgs>>

\* line 77 with FinalWrapper.fit, lines 165-170: the trailing shapes are
\* recorded, the featurizer is fit on the whole X, then the final model is
\* fit on cross_product(featurize(X), T_res) against Y_res
FinalFit ==
    /\ pc = "final_fit"
    /\ wrapper' = [set |-> TRUE, dT |-> args.dT, dY |-> args.dY]
    /\ featurizer' = FitTransform("fit", Rows(args.nX))
    /\ finalFits' = finalFits + 1
    /\ finalArgs' = [given |-> TRUE, xRows |-> Rows(args.nX), tRes |-> tRes,
                     yRes |-> yRes, idx |-> idx]
    /\ pc' = "idle"
    /\ \E raises \in BOOLEAN :
         IF raises
         THEN /\ lastResult' = Result("fit", "DelegateError", <<>>, 0, idx, "model_final")
              /\ wlog' = wlog \cup Wrote("featurizer", {0}, "final", idx)
              /\ UNCHANGED <<modelFinal, everFit>>
         ELSE /\ modelFinal' = [fitted |-> TRUE,
                                width |-> FeatWidth(XCols) * Prod(args.dT),
                                dY |-> args.dY]
              /\ wlog' = wlog \cup Wrote("featurizer", {0}, "final", idx)
                              \cup Wrote("model_final", {0}, "final", idx)
              /\ lastResult' = Result("fit", "ok", <<>>, 0, 0, "none")
              /\ everFit' = TRUE
    /\ UNCHANGED <<nSplits, modelsT, modelsY, call, args, idx, tRes, yRes, histT, histY>>

\* _RLearner.const_marginal_effect, lines 100-102, with FinalWrapper.predict:
\* the query X has m rows (one row when X is not given); once _d_t is read
\* the featurizer is fit on the query, then the final model predicts
ConstMarginalEffect ==
    /\ pc = "idle"
    /\ \E m \in 1..MaxQ :
        LET out == PredictOutcome(wrapper, modelFinal, m)
        IN  /\ lastResult' = Result("cme", out.status, out.shape, m, 0, "none")
            /\ featurizer' = IF wrapper.set THEN FitTransform("query", Rows(m))
                             ELSE featurizer
    /\ ForgetFrame
    /\ UNCHANGED <<nSplits, modelsT, modelsY, modelFinal, wrapper, pc, call, everFit>>

\* _DMLCateEstimatorBase.coef_, line 207, with FinalWrapper.coef_
Coef ==
    /\ pc = "idle"
    /\ LET out == CoefOutcome(wrapper, modelFinal)
       IN  lastResult' = Result("coef", out.status, out.shape, 0, 0, "none")
    /\ ForgetFrame
    /\ UNCHANGED <<state, pc, call, everFit>>

\* KernelDMLCateEstimator(...), lines 320-330
KernelInit ==
    /\ pc = "idle"
    /\ \E byKeyword \in BOOLEAN :
         lastResult' = Result("kernel_init", KernelConstruct(byKeyword), <<>>, 0, 0, "none")
    /\ ForgetFrame
    /\ UNCHANGED <<state, pc, call, everFit>>

Next ==
    \/ FitCall
    \/ TFit
    \/ TPredict
    \/ YFit
    \/ YPredict
    \/ FinalFit
    \/ ConstMarginalEffect
    \/ Coef
    \/ KernelInit

Spec == Init /\ [][Next]_vars

\* ------------------------------------------------------------------ claims
FitOk == lastResult.op = "fit" /\ lastResult.status = "ok"

InFold == pc \in {"t_fit", "t_predict", "y_fit", "y_predict"}

\* C1: once the fold loop has ended (and so when fit has returned normally),
\* every row 0..n-1 has been written exactly once into t_res and exactly
\* once into y_res; the k test sets the loop iterated are pairwise disjoint
\* and their union is 0..n-1.
C1_EveryRowWrittenOnce ==
    (pc = "final_fit" \/ FitOk) =>
        /\ DOMAIN tRes = Rows(args.nY)
        /\ DOMAIN yRes = Rows(args.nY)
        /\ \A i \in Rows(args.nY) : Len(tRes[i]) = 1 /\ Len(yRes[i]) = 1
        /\ \A f, g \in Folds :
             f # g => TestIdxs(args.nX, nSplits, f) \cap TestIdxs(args.nX, nSplits, g) = {}
        /\ UNION {TestIdxs(args.nX, nSplits, f) : f \in Folds} = Rows(args.nY)

C1_Witness ==
    /\ FitOk
    /\ args.nY = 4
    /\ nSplits = 3
    /\ tRes[1] = <<0>>
    /\ tRes[3] = <<2>>
    /\ yRes[2] = <<1>>

\* C2: every residual a fit call has stored for a row i was computed with
\* the nuisance model of i's fold, that model was fit in this fit call, and
\* on rows outside i's test fold only; no model instance has predicted a
\* row of the set it was trained on.
C2_OutOfFold ==
    /\ \A i \in DOMAIN tRes : \A j \in 1..Len(tRes[i]) :
         LET f == tRes[i][j]
         IN  /\ i \in TestIdxs(args.nX, nSplits, f)
             /\ modelsT[f].fitted
             /\ histT[f].fit
             /\ i \notin histT[f].train
             /\ histT[f].train \cap TestIdxs(args.nX, nSplits, f) = {}
    /\ \A i \in DOMAIN yRes : \A j \in 1..Len(yRes[i]) :
         LET f == yRes[i][j]
         IN  /\ i \in TestIdxs(args.nX, nSplits, f)
             /\ modelsY[f].fitted
             /\ histY[f].fit
             /\ i \notin histY[f].train
             /\ histY[f].train \cap TestIdxs(args.nX, nSplits, f) = {}
    /\ \A f \in Folds :
         /\ histT[f].train \cap histT[f].predicted = {}
         /\ histY[f].train \cap histY[f].predicted = {}

C2_Witness ==
    /\ FitOk
    /\ call = 2
    /\ args.nY = 3
    /\ histY[1].train = {0, 1}
    /\ histY[1].predicted = {2}
    /\ yRes[2] = <<1>>

\* C3: in one fit call the final model wrapper is fit at most once, not
\* while a fold is being processed, and exactly once when fit returns
\* normally; when it is fit, every fold's nuisance fit and predict of this
\* call is complete, and it is given all rows of X with residual arrays in
\* which every row has been written.
C3_JoinBarrier ==
    /\ finalFits <= 1
    /\ (InFold \/ pc = "final_fit") => finalFits = 0
    /\ FitOk => finalFits = 1
    /\ (finalFits = 1) = finalArgs.given
    /\ finalArgs.given =>
         /\ finalArgs.idx = nSplits - 1
         /\ finalArgs.xRows = Rows(args.nX)
         /\ DOMAIN finalArgs.tRes = Rows(args.nY)
         /\ DOMAIN finalArgs.yRes = Rows(args.nY)
         /\ \A i \in Rows(args.nY) :
              Len(finalArgs.tRes[i]) = 1 /\ Len(finalArgs.yRes[i]) = 1
         /\ \A f \in Folds :
              /\ histT[f].fit
              /\ histY[f].fit
              /\ histT[f].predicted = TestIdxs(args.nX, nSplits, f)
              /\ histY[f].predicted = TestIdxs(args.nX, nSplits, f)

C3_Witness ==
    /\ finalArgs.given
    /\ finalFits = 1
    /\ nSplits = 3
    /\ args.nY = 4
    /\ finalArgs.tRes[1] = <<0>>
    /\ finalArgs.yRes[3] = <<2>>

\* C4: a fit call whose row counts of Y, T, X, W disagree ends with the
\* assertion's failure before anything is fit or written in that call, and
\* an estimator that was not fitted before is not fitted after: every
\* const_marginal_effect call on it still fails.
C4_ShapeMismatchAborts ==
    (lastResult.op = "fit"
        /\ ~(args.nY = args.nT /\ args.nT = args.nX /\ args.nX = args.nW)) =>
        /\ lastResult.status = "AssertionError"
        /\ pc = "idle"
        /\ wlog = {}
        /\ finalFits = 0
        /\ \A f \in Folds : ~histT[f].fit /\ ~histY[f].fit
        /\ ~everFit =>
             \A m \in 1..MaxQ : PredictOutcome(wrapper, modelFinal, m).status # "ok"

C4_Witness ==
    /\ lastResult.op = "fit"
    /\ lastResult.status = "AssertionError"
    /\ args.nY = 3
    /\ args.nT = 2
    /\ ~everFit
    /\ wrapper.set

\* C5 (as claimed): a const_marginal_effect call changes nothing a later
\* predict reads - not the final model, not the recorded d_t and d_y, not
\* the featurizer the wrappers share - so the same query gives the same
\* result again.
C5_PredictReadOnly ==
    [][ConstMarginalEffect =>
         /\ UNCHANGED <<modelFinal, wrapper, featurizer>>
         /\ \A m \in 1..MaxQ :
              PredictOutcome(wrapper', modelFinal', m) = PredictOutcome(wrapper, modelFinal, m)]_vars

\* C6 (as claimed): a const_marginal_effect call that returns, for m query
\* rows, returns shape (m,) + d_y + d_t for the trailing shapes d_t of T and
\* d_y of Y recorded at the most recent final-model fit.
C6_ShapeLaw ==
    (lastResult.op = "cme" /\ lastResult.status = "ok") =>
        lastResult.shape = <<lastResult.q>> \o wrapper.dY \o wrapper.dT

\* C7 (as claimed): apart from the residual arrays, whose rows the folds
\* write disjointly, nothing is written by two different parties of a fit
\* call (two folds, or a fold and the final model wrapper).
C7_NoSharedWrites ==
    \A e1, e2 \in wlog :
        (e1.obj = e2.obj /\ e1.key = e2.key) => (e1.who = e2.who /\ e1.fold = e2.fold)

\* C8 (as claimed): a Kernel configuration can be constructed, its random
\* projection parameters to be drawn on the first fit_transform of a width
\* and reused after.
C8_KernelConstructs ==
    lastResult.op = "kernel_init" => lastResult.status = "constructed"

\* C9: as long as no fit call has returned normally, every
\* const_marginal_effect call and every coef_ access fails - also after a
\* fit call that aborted inside the final model's fit.
C9_NotFittedFails ==
    ~everFit =>
        /\ \A m \in 1..MaxQ : PredictOutcome(wrapper, modelFinal, m).status # "ok"
        /\ CoefOutcome(wrapper, modelFinal).status # "ok"
        /\ lastResult.op \in {"cme", "coef"} => lastResult.status # "ok"

C9_Witness ==
    /\ ~everFit
    /\ wrapper.set
    /\ lastResult.op = "cme"
    /\ lastResult.status = "NotFittedError"

\* C10: when a nuisance model of fold f raises in fit or predict, the fit
\* call has ended with that failure: no later statement of fold f and no
\* later fold was processed, and the final model was not fit in that call.
C10_NuisanceFailureAborts ==
    (lastResult.op = "fit" /\ lastResult.status = "DelegateError"
        /\ lastResult.target # "model_final") =>
        /\ pc = "idle"
        /\ lastResult.fold = idx
        /\ finalFits = 0
        /\ ~finalArgs.given
        /\ \A e \in wlog : e.who = "fold" /\ e.fold <= idx
        /\ lastResult.target = "model_t" =>
             /\ ~histY[idx].fit
             /\ \A i \in TestIdxs(args.nX, nSplits, idx) : yRes[i] = <<>>
        /\ \A f \in Folds : f > idx =>
             /\ ~histT[f].fit
             /\ ~histY[f].fit
             /\ \A i \in TestIdxs(args.nX, nSplits, f) : tRes[i] = <<>> /\ yRes[i] = <<>>

C10_Witness ==
    /\ lastResult.op = "fit"
    /\ lastResult.status = "DelegateError"
    /\ lastResult.target = "model_y"
    /\ lastResult.fold = 1
    /\ nSplits = 3
    /\ histT[1].fit
    /\ histY[0].predicted = {0, 1}
    /\ call = 2
    /\ modelsT[2].fitted

====
